---- MODULE Spec2Model ----
(***************************************************************************)
(* Model of cmd/protodemo/main.go: the protobuf wire reader readNext and   *)
(* the descriptor walkers parseDescriptor, parseFile, parseMessage and     *)
(* parseField built on it.                                                 *)
(*                                                                         *)
(* The input buffer is the byte array mem; msg = mem[0:msgLen] and         *)
(* cap(msg) = Len(mem).  A Go slice is a record [off, len, cap] over mem.  *)
(* The recursion of the walkers is an explicit call stack of frames, one   *)
(* action per walker, one step per loop iteration / return.                *)
(*                                                                         *)
(* uint64 values are kept exactly, as three limbs <<l0, l1, l2>> with      *)
(* value l0 + l1*2^28 + l2*2^56 (l0, l1 < 2^28, l2 < 2^8); uint32 values   *)
(* as two limbs <<lo, hi>> with value lo + hi*2^28 (hi < 2^4).  A limb of  *)
(* 28 bits holds four 7-bit varint groups.                                 *)
(***************************************************************************)
EXTENDS Integers, Sequences, FiniteSets, TLC

VARIABLES
  src,      \* description of the input: the entries the buffer was built from
  mem,      \* backing array of the input buffer (bytes 0..255)
  msgLen,   \* len(msg) of the buffer handed to parseDescriptor
  stack,    \* call stack of walker frames, innermost last
  ret,      \* value returned by the call that just returned
  status,   \* "running", "done" (nil error), "failed" (badOffset), "panic"
  failAbs   \* absolute index in mem of the readNext that reported n == 0

vars == <<src, mem, msgLen, stack, ret, status, failAbs>>

---------------------------------------------------------------------------
(* Wire encoding constants *)

tagUvarint == 0
tag64bit == 1
tagSequence == 2
tagStart == 3
tagEnd == 4
tag32bit == 5

\* encoding/binary.MaxVarintLen64
MaxVarintLen64 == 10

Limb == 2 ^ 28

---------------------------------------------------------------------------
(* Bounds of the model *)

\* top-level entries of an input buffer
MaxEntries == 2

\* spare capacity of the input buffer beyond its length: none, or this many bytes
MaxSpare == 4

\* top-level entries of a buffer that is truncated
MaxCutEntries == 1

\* children a walker appends before the model stops following the run
MaxChildren == MaxEntries + 1

---------------------------------------------------------------------------
(* Fixed-width integers *)

U64(n) == <<n, 0, 0>>

U32(n) == <<n, 0>>

\* x | uint64(g) << (7*k), for a 7-bit group g that x does not hold yet
OrGroup(x, g, k) ==
  [x EXCEPT ![(k \div 4) + 1] = @ + g * (2 ^ (7 * (k % 4)))]

\* tagNum(v >> 3): bits 3..34 of v
tagOf(v) ==
  <<(v[1] \div 8) + (v[2] % 8) * (2 ^ 25), (v[2] \div 8) % 16>>

\* tagClass(v & 0x07)
kindOf(v) == v[1] % 8

\* uint32(d)
uint32(d) == <<d[1], d[2] % 16>>

\* uint8(d)
uint8(d) == d[1] % 256

\* int32(d): the low 32 bits of d read as two's complement
int32(d) ==
  LET hi == d[2] % 16
  IN  IF hi < 8 THEN hi * Limb + d[1] ELSE (hi - 16) * Limb + d[1]

\* int(v) is exact here only below 2^28; every larger v (also one that int()
\* wraps to a negative number) is beyond the capacity of any buffer modelled.
intFits(v) == v[2] = 0 /\ v[3] = 0

intOf(v) == v[1]

---------------------------------------------------------------------------
(* Slices over mem *)

nil == [off |-> 0, len |-> 0, cap |-> 0]

\* s[k], 0-based
At(s, k) == mem[s.off + k + 1]

\* s[from:]
SliceFrom(s, from) ==
  [off |-> s.off + from, len |-> s.len - from, cap |-> s.cap - from]

\* string(b)
string(b) == SubSeq(mem, b.off + 1, b.off + b.len)

---------------------------------------------------------------------------
(* encoding/binary.Uvarint: (value, bytes read); n == 0 buffer too small,  *)
(* n < 0 overflow of 64 bits after -n bytes.                               *)

Overflow(i) == [v |-> U64(0), n |-> -(i + 1)]

RECURSIVE UvarintFrom(_, _, _)
UvarintFrom(buf, i, x) ==
  IF i >= buf.len THEN [v |-> U64(0), n |-> 0]
  ELSE IF i = MaxVarintLen64 THEN Overflow(i)
  ELSE LET b == At(buf, i)
       IN  IF b < 128
           THEN IF i = MaxVarintLen64 - 1 /\ b > 1
                THEN Overflow(i)
                ELSE [v |-> OrGroup(x, b, i), n |-> i + 1]
           ELSE UvarintFrom(buf, i + 1, OrGroup(x, b % 128, i))

Uvarint(buf) == UvarintFrom(buf, 0, U64(0))

\* binary.LittleEndian.Uint32(data[start:start+4])
Uint32LE(data, start) ==
  <<At(data, start) + At(data, start + 1) * 256 + At(data, start + 2) * 65536
      + (At(data, start + 3) % 16) * 16777216,
    At(data, start + 3) \div 16,
    0>>

\* binary.LittleEndian.Uint64(data[start:start+8])
Uint64LE(data, start) ==
  <<At(data, start) + At(data, start + 1) * 256 + At(data, start + 2) * 65536
      + (At(data, start + 3) % 16) * 16777216,
    (At(data, start + 3) \div 16) + At(data, start + 4) * 16
      + At(data, start + 5) * 4096 + At(data, start + 6) * 1048576,
    At(data, start + 7)>>

---------------------------------------------------------------------------
(* readNext *)

\* a result of readNext; panic: the call did not return (slice out of range)
Result(d, b, tag, next) ==
  [d |-> d, b |-> b, tag |-> tag, next |-> next, panic |-> FALSE]

OutOfRange == [d |-> U64(0), b |-> nil, tag |-> U32(0), next |-> 0, panic |-> TRUE]

\* if tag == 0 { return uint64(kind), nil, tag, pos }
TagZeroResult(kind, tag, pos) == Result(U64(kind), nil, tag, pos)

\* as ErrorResult, but reporting the header's bytes as consumed
ErrorResultConsumed(kind, tag, pos) == Result(U64(kind), nil, tag, pos)

\* error, report kind and tag: return uint64(kind), nil, tag, 0
ErrorResult(kind, tag, pos) == Result(U64(kind), nil, tag, 0)

\* as ReadUvarint, but counting the bytes of the value only
ReadUvarintValueOnly(data, tag, kind, next) ==
  LET r == Uvarint(SliceFrom(data, next))
  IN  IF r.n < 0 THEN ErrorResult(kind, tag, next)
      ELSE Result(r.v, nil, tag, r.n)

\* as ReadSequence, but returning the length as the scalar
ReadSequenceLen(data, tag, kind, next) ==
  LET r == Uvarint(SliceFrom(data, next))
      start == next + r.n
      end == start + intOf(r.v)
  IN  IF r.n = 0 THEN ErrorResult(kind, tag, next)
      ELSE IF start < 0 \/ ~intFits(r.v) \/ end > data.cap THEN OutOfRange
      ELSE Result(r.v,
                  [off |-> data.off + start, len |-> end - start, cap |-> end - start],
                  tag, end)

\* case tagUvarint
ReadUvarint(data, tag, kind, next) ==
  LET r == Uvarint(SliceFrom(data, next))
  IN  IF r.n < 0 THEN ErrorResult(kind, tag, next)
      ELSE Result(r.v, nil, tag, next + r.n)

\* the end of a fixed-width value of the given width that starts at start
FixedEnd(start, width) == start + width

\* case tag32bit: data[start:next] needs next <= cap(data)
Read32bit(data, tag, start) ==
  LET next == FixedEnd(start, 4)
  IN  IF next > data.cap THEN OutOfRange
      ELSE Result(Uint32LE(data, start), nil, tag, next)

\* case tag64bit
Read64bit(data, tag, start) ==
  LET next == FixedEnd(start, 8)
  IN  IF next > data.cap THEN OutOfRange
      ELSE Result(Uint64LE(data, start), nil, tag, next)

\* case tagSequence: data[start:next:next] needs 0 <= start <= next <= cap(data)
ReadSequence(data, tag, kind, next) ==
  LET r == Uvarint(SliceFrom(data, next))
      start == next + r.n
      end == start + intOf(r.v)
  IN  IF r.n = 0 THEN ErrorResult(kind, tag, next)
      ELSE IF start < 0 \/ ~intFits(r.v) \/ end > data.cap THEN OutOfRange
      ELSE Result(U64(0),
                  [off |-> data.off + start, len |-> end - start, cap |-> end - start],
                  tag, end)

readNext(data) ==
  LET h == Uvarint(data)
      tag == tagOf(h.v)
      kind == kindOf(h.v)
      pos == h.n
  IN  IF tag = U32(0) THEN TagZeroResult(kind, tag, pos)
      ELSE CASE kind = tagUvarint -> ReadUvarint(data, tag, kind, pos)
             [] kind = tag32bit -> Read32bit(data, tag, pos)
             [] kind = tag64bit -> Read64bit(data, tag, pos)
             [] kind = tagSequence -> ReadSequence(data, tag, kind, pos)
             [] OTHER -> ErrorResult(kind, tag, pos)

---------------------------------------------------------------------------
(* Entities *)

\* &File{}
NewFile == [Name |-> <<>>, Package |-> <<>>, Message |-> <<>>, Format |-> <<>>]

\* &Message{}
NewMessage == [Name |-> <<>>, Field |-> <<>>, Nested |-> <<>>]

\* &Field{}
NewField ==
  [Name |-> <<>>, Tag |-> U32(0), Label |-> 0, Type |-> 0, OneOfIndex |-> 0]

---------------------------------------------------------------------------
(* Call stack *)

\* a walker's activation: its msg, cursor i, the n of the readNext whose child
\* call is in progress, and the entity (for parseDescriptor: files) it builds
Frame(fn, msg, ent) == [fn |-> fn, msg |-> msg, i |-> 0, n |-> 0, ent |-> ent]

Top == stack[Len(stack)]

Pop == SubSeq(stack, 1, Len(stack) - 1)

\* what the last call handed back: kind "ok" (nil error) or "err" (a badOffset
\* off), by walker fn, with the entity val; "none" while no return is pending
Ret(kind, fn, val, off) == [kind |-> kind, fn |-> fn, val |-> val, off |-> off]

NoRet == Ret("none", "", <<>>, 0)

\* the readNext result of the iteration about to run
Cur == readNext(SliceFrom(Top.msg, Top.i))

\* the loop body ends: i += n
Advance(f, n) == [f EXCEPT !.i = @ + n]

\* as Skip, but moving the cursor one byte too far
SkipPastNext(f, r) == Advance(f, r.next + 1)

\* as Skip, but stepping over the header byte only
SkipHeaderOnly(f, r) == Advance(f, 1)

\* default: // skip
Skip(f, r) == Advance(f, r.next)

\* as AppendChild, but putting the new child first
PrependChild(children, c) == <<c>> \o children

\* append(children, c)
AppendChild(children, c) == Append(children, c)

\* as SetString, but keeping a value that was set before
SetStringOnce(old, b) == IF old = <<>> THEN string(b) ELSE old

\* a string attribute is assigned: f.Name = string(b)
SetString(old, b) == string(b)

\* the partial entity handed back next to an error: return f, &tmp
Partial(ent) == ent

\* badOffset(i) + *err
Translate(i, off) == i + off

\* a child sequence may not outgrow the model: a run that appends more
\* children than this is re-reading bytes and never returns
Room(children) == Len(children) < MaxChildren

Continue(f) ==
  /\ stack' = [stack EXCEPT ![Len(stack)] = f]
  /\ ret' = NoRet
  /\ UNCHANGED <<src, mem, msgLen, status, failAbs>>

\* call a child walker on b; the caller keeps n for its i += n
Call(fn, b, ent, n) ==
  /\ stack' = Append([stack EXCEPT ![Len(stack)].n = n], Frame(fn, b, ent))
  /\ ret' = NoRet
  /\ UNCHANGED <<src, mem, msgLen, status, failAbs>>

\* return ent, nil (a nested walker)
ReturnOk(f) ==
  /\ stack' = Pop
  /\ ret' = Ret("ok", f.fn, f.ent, 0)
  /\ UNCHANGED <<src, mem, msgLen, status, failAbs>>

\* n == 0: tmp := badOffset(i); return ent, &tmp (a nested walker)
ReturnBad(f) ==
  /\ stack' = Pop
  /\ ret' = Ret("err", f.fn, Partial(f.ent), f.i)
  /\ failAbs' = f.msg.off + f.i
  /\ UNCHANGED <<src, mem, msgLen, status>>

\* err != nil: tmp := badOffset(i) + *err; return ent, &tmp (a nested walker)
ReturnErr(f) ==
  /\ stack' = Pop
  /\ ret' = Ret("err", f.fn, Partial(f.ent), Translate(f.i, ret.off))
  /\ UNCHANGED <<src, mem, msgLen, status, failAbs>>

\* a slice expression out of range: the goroutine panics
Panic ==
  /\ status' = "panic"
  /\ UNCHANGED <<src, mem, msgLen, stack, ret, failAbs>>

---------------------------------------------------------------------------
(* Walkers *)

parseField ==
  /\ status = "running" /\ stack # <<>> /\ Top.fn = "parseField"
  /\ LET f == Top
         r == Cur
     IN  IF f.i >= f.msg.len THEN ReturnOk(f)
         ELSE IF f.i < 0 \/ r.panic THEN Panic
         ELSE IF r.next = 0 THEN ReturnBad(f)
         ELSE CASE r.tag = U32(1) ->
                     Continue(Advance([f EXCEPT !.ent.Name = SetString(@, r.b)], r.next))
                [] r.tag = U32(3) ->
                     Continue(Advance([f EXCEPT !.ent.Tag = uint32(r.d)], r.next))
                [] r.tag = U32(4) ->
                     Continue(Advance([f EXCEPT !.ent.Label = uint8(r.d)], r.next))
                [] r.tag = U32(5) ->
                     Continue(Advance([f EXCEPT !.ent.Type = uint8(r.d)], r.next))
                [] r.tag = U32(9) ->
                     Continue(Advance([f EXCEPT !.ent.OneOfIndex = int32(r.d)], r.next))
                [] OTHER -> Continue(Skip(f, r))

parseMessage ==
  /\ status = "running" /\ stack # <<>> /\ Top.fn = "parseMessage"
  /\ LET f == Top
         r == Cur
     IN  IF ret.kind = "err" THEN ReturnErr(f)
         ELSE IF ret.kind = "ok" /\ ret.fn = "parseField" THEN
           Room(f.ent.Field)
             /\ Continue(Advance([f EXCEPT !.ent.Field = AppendChild(@, ret.val)], f.n))
         ELSE IF ret.kind = "ok" THEN
           Room(f.ent.Nested)
             /\ Continue(Advance([f EXCEPT !.ent.Nested = AppendChild(@, ret.val)], f.n))
         ELSE IF f.i >= f.msg.len THEN ReturnOk(f)
         ELSE IF f.i < 0 \/ r.panic THEN Panic
         ELSE IF r.next = 0 THEN ReturnBad(f)
         ELSE CASE r.tag = U32(1) ->
                     Continue(Advance([f EXCEPT !.ent.Name = SetString(@, r.b)], r.next))
                [] r.tag = U32(2) -> Call("parseField", r.b, NewField, r.next)
                [] r.tag = U32(4) -> Call("parseMessage", r.b, NewMessage, r.next)
                [] OTHER -> Continue(Skip(f, r))

parseFile ==
  /\ status = "running" /\ stack # <<>> /\ Top.fn = "parseFile"
  /\ LET f == Top
         r == Cur
     IN  IF ret.kind = "err" THEN ReturnErr(f)
         ELSE IF ret.kind = "ok" THEN
           Room(f.ent.Message)
             /\ Continue(Advance([f EXCEPT !.ent.Message = AppendChild(@, ret.val)], f.n))
         ELSE IF f.i >= f.msg.len THEN ReturnOk(f)
         ELSE IF f.i < 0 \/ r.panic THEN Panic
         ELSE IF r.next = 0 THEN ReturnBad(f)
         ELSE CASE r.tag = U32(1) ->
                     Continue(Advance([f EXCEPT !.ent.Name = SetString(@, r.b)], r.next))
                [] r.tag = U32(2) ->
                     Continue(Advance([f EXCEPT !.ent.Package = SetString(@, r.b)], r.next))
                [] r.tag = U32(4) -> Call("parseMessage", r.b, NewMessage, r.next)
                [] r.tag = U32(12) ->
                     Continue(Advance([f EXCEPT !.ent.Format = SetString(@, r.b)], r.next))
                [] OTHER -> Continue(Skip(f, r))

\* parseDescriptor returns (files, err) to its caller
Finish(st, kind, files, off) ==
  /\ stack' = <<>>
  /\ status' = st
  /\ ret' = Ret(kind, "parseDescriptor", files, off)

\* as FilesOnError, but keeping the File the failure occurred in
FilesOnErrorKeepPartial(files, f) == Append(files, f)

\* the files handed back when parseFile failed: return files, &tmp
FilesOnError(files, f) == files

parseDescriptor ==
  /\ status = "running" /\ stack # <<>> /\ Top.fn = "parseDescriptor"
  /\ LET f == Top
         r == Cur
     IN  IF ret.kind = "err" THEN
           Finish("failed", "err", FilesOnError(f.ent, ret.val), Translate(f.i, ret.off))
             /\ UNCHANGED <<src, mem, msgLen, failAbs>>
         ELSE IF ret.kind = "ok" THEN
           Room(f.ent) /\ Continue(Advance([f EXCEPT !.ent = AppendChild(@, ret.val)], f.n))
         ELSE IF f.i >= f.msg.len THEN
           Finish("done", "ok", f.ent, 0) /\ UNCHANGED <<src, mem, msgLen, failAbs>>
         ELSE IF f.i < 0 \/ r.panic THEN Panic
         ELSE IF r.next = 0 THEN
           Finish("failed", "err", f.ent, f.i)
             /\ failAbs' = f.msg.off + f.i
             /\ UNCHANGED <<src, mem, msgLen>>
         ELSE CASE r.tag = U32(1) -> Call("parseFile", r.b, NewFile, r.next)
                [] OTHER -> Continue(Skip(f, r))

Next == parseDescriptor \/ parseFile \/ parseMessage \/ parseField

\* the result of parseDescriptor(msg)
files == ret.val

errOffset == ret.off

---------------------------------------------------------------------------
(* Input buffers.  A buffer is described by the entries it is built from:  *)
(* a field with a tag number and a wire type whose value is a varint num,  *)
(* fixed-width or string bytes str, or an embedded entity sub (a sequence  *)
(* of entries); raw entries are arbitrary bytes str.                       *)

Entry(tag, wt, num, str, sub, raw) ==
  [tag |-> tag, wt |-> wt, num |-> num, str |-> str, sub |-> sub, raw |-> raw]

V(tag, num) == Entry(tag, tagUvarint, num, <<>>, <<>>, FALSE)
F32(tag, bytes) == Entry(tag, tag32bit, 0, bytes, <<>>, FALSE)
F64(tag, bytes) == Entry(tag, tag64bit, 0, bytes, <<>>, FALSE)
S(tag, bytes) == Entry(tag, tagSequence, 0, bytes, <<>>, FALSE)
C(tag, sub) == Entry(tag, tagSequence, 0, <<>>, sub, FALSE)
G(tag, wt) == Entry(tag, wt, 0, <<>>, <<>>, FALSE)
R(bytes) == Entry(0, 0, 0, bytes, <<>>, TRUE)

\* the varint encoding of n
RECURSIVE PutUvarint(_)
PutUvarint(n) ==
  IF n < 128 THEN <<n>> ELSE <<128 + (n % 128)>> \o PutUvarint(n \div 128)

Header(tag, wt) == PutUvarint(tag * 8 + wt)

RECURSIVE Encode(_)
EncodeEntry(e) ==
  IF e.raw THEN e.str
  ELSE CASE e.wt = tagUvarint -> Header(e.tag, e.wt) \o PutUvarint(e.num)
         [] e.wt = tagSequence ->
              LET payload == e.str \o Encode(e.sub)
              IN  Header(e.tag, e.wt) \o PutUvarint(Len(payload)) \o payload
         [] OTHER -> Header(e.tag, e.wt) \o e.str

Encode(es) ==
  IF es = <<>> THEN <<>> ELSE EncodeEntry(Head(es)) \o Encode(Tail(es))

\* entities of the pool: Fields, Messages, Files, without and with entries
\* of tag numbers their kind does not know
fieldX == <<S(1, <<120>>), V(3, 1), V(5, 5)>>
fieldY == <<S(1, <<121>>), V(3, 300), V(4, 1), V(9, 2)>>
fieldXJunk ==
  <<F32(7, <<1, 2, 3, 4>>), S(1, <<120>>), V(2, 9), V(3, 1), S(8, <<0, 11>>),
    V(5, 5), F64(6, <<1, 2, 3, 4, 5, 6, 7, 8>>)>>
msgPoint == <<S(1, <<80>>), C(2, fieldX), C(2, fieldY)>>
msgPointJunk ==
  <<V(3, 4), S(1, <<80>>), C(2, fieldXJunk), F64(9, <<0, 0, 0, 0, 0, 0, 240, 63>>),
    C(2, fieldY), S(5, <<10, 0>>), V(7, 1)>>
msgOuter == <<S(1, <<79>>), C(4, msgPoint)>>
msgOuterJunk == <<F32(12, <<255, 255, 255, 255>>), S(1, <<79>>), C(4, msgPointJunk), V(6, 200)>>
fileA == C(1, <<S(1, <<97>>), S(2, <<112>>), C(4, msgOuter), S(12, <<51>>)>>)
fileAJunk ==
  C(1, <<S(1, <<97>>), V(3, 0), S(2, <<112>>), S(5, <<11>>), C(4, msgOuterJunk),
         F32(9, <<0, 0, 128, 63>>), S(12, <<51>>), F64(7, <<8, 7, 6, 5, 4, 3, 2, 1>>)>>)
fileEmpty == C(1, <<>>)

\* a File whose single-valued attributes occur twice, with two Messages, the
\* first with two Fields between two nested Messages
fieldTwice ==
  <<S(1, <<120>>), V(3, 7), V(4, 1), V(5, 9), V(9, 1), V(9, 3), V(5, 13), V(4, 2),
    V(3, 300), S(1, <<122, 122>>)>>
msgTwice ==
  <<S(1, <<80>>), C(4, <<S(1, <<65>>)>>), C(2, fieldTwice), S(1, <<81>>), C(2, fieldX),
    C(4, <<S(1, <<66>>)>>)>>
fileTwice ==
  C(1, <<S(12, <<50>>), S(1, <<97>>), C(4, msgTwice), S(2, <<112>>), S(1, <<98>>),
         C(4, msgPoint), S(2, <<113>>), S(12, <<51>>)>>)

\* a File with a Field whose tag-number entry carries 0
fileTagZero == C(1, <<C(4, <<S(1, <<80>>), C(2, <<S(1, <<120>>), V(3, 0)>>)>>)>>)

\* a length-delimited field of 130 bytes: its length prefix takes two bytes
longBytes == S(7, [k \in 1..130 |-> k])

\* known tags that arrive with another wire type than their attribute has
fieldMixed ==
  <<S(1, <<120>>), V(3, 7), V(4, 1), V(5, 9), V(9, 1), S(3, <<122, 122>>), S(4, <<1>>),
    S(5, <<>>), S(9, <<5, 5, 5>>), F32(1, <<1, 2, 3, 4>>)>>
msgMixed ==
  <<S(1, <<80>>), V(2, 6), C(2, fieldMixed), F64(4, <<1, 2, 3, 4, 5, 6, 7, 8>>),
    V(1, 77), F32(2, <<9, 9, 9, 9>>)>>
fileMixed ==
  C(1, <<S(1, <<97>>), S(2, <<112>>), S(12, <<51>>), C(4, msgMixed), V(4, 1),
         F64(1, <<1, 1, 1, 1, 1, 1, 1, 1>>), V(2, 0), F32(12, <<0, 0, 0, 0>>)>>)

\* a 10-byte varint whose last byte overflows 64 bits
overflow == <<128, 128, 128, 128, 128, 128, 128, 128, 128, 2>>

\* top-level entries that are well formed: Files, and fields of unknown tags
GoodTop ==
  { fileA, fileAJunk, fileEmpty,
    V(16, 300), F32(2, <<1, 0, 0, 0>>), F64(9, <<1, 2, 3, 4, 5, 6, 7, 8>>),
    S(7, <<1, 2, 3, 4, 5, 6, 7, 8>>),
    fileTwice, fileTagZero, longBytes }

\* top-level entries with a known tag under another wire type
MixedTop == { fileMixed, V(1, 2), F32(1, <<1, 2, 3, 4>>) }

\* top-level entries readNext fails in, at depth 0, 1, 3 (a doubly nested
\* Message) and in a Field
BadTop ==
  { G(1, tagStart), G(7, tagEnd), G(7, 6), G(2, 7),
    C(1, <<S(1, <<97>>), G(4, tagStart)>>),
    C(1, <<S(1, <<97>>), C(4, <<S(1, <<79>>), C(4, <<S(1, <<78>>), C(4, <<V(7, 1), G(7, tagStart)>>)>>)>>)>>),
    C(1, <<C(4, <<C(2, <<S(1, <<120>>), G(3, tagEnd)>>)>>)>>) }

\* top-level entries that are not well formed otherwise: tag number 0, a
\* varint that overflows, values and payloads cut short
WildTop ==
  { R(<<0>>), R(<<3>>), R(overflow), R(<<128>>), R(<<56>>), R(<<61>>), R(<<58, 5, 10>>),
    R(<<10, 1, 61>>), R(<<10, 2, 10, 3>>), R(<<10, 1, 0>>) }

TopPool == GoodTop \cup MixedTop \cup BadTop \cup WildTop

RECURSIVE SeqsUpTo(_, _)
SeqsUpTo(P, n) ==
  IF n = 0 THEN {<<>>}
  ELSE LET shorter == SeqsUpTo(P, n - 1)
       IN  shorter \cup {Append(s, e) : s \in shorter, e \in P}

Zeros(n) == [k \in 1..n |-> 0]

\* parseDescriptor(msg) is called with msg = mem[0:len] and cap(msg) = Len(mem)
Start(entries, bytes, len, spare) ==
  /\ src = entries
  /\ mem = bytes \o Zeros(spare)
  /\ msgLen = len
  /\ stack = <<Frame("parseDescriptor", [off |-> 0, len |-> len, cap |-> Len(bytes) + spare], <<>>)>>
  /\ ret = NoRet
  /\ status = "running"
  /\ failAbs = -1

Init ==
  \E entries \in SeqsUpTo(TopPool, MaxEntries), spare \in {0, MaxSpare} :
    Start(entries, Encode(entries), Len(Encode(entries)), spare)

Spec == Init /\ [][Next]_vars

\* the program runs on until parseDescriptor returns or panics
FairSpec == Init /\ [][Next]_vars /\ WF_vars(Next)

---------------------------------------------------------------------------
(* What a well-formed description decodes to, by the tag tables of the     *)
(* entity kinds: the entries of tags a kind does not know are dropped, a   *)
(* single-valued attribute takes its last entry, children keep their order *)

KnownTags(kind) ==
  CASE kind = "FileSet" -> {1}
    [] kind = "File" -> {1, 2, 4, 12}
    [] kind = "Message" -> {1, 2, 4}
    [] kind = "Field" -> {1, 3, 4, 5, 9}

ChildKind(kind, tag) ==
  CASE kind = "FileSet" /\ tag = 1 -> "File"
    [] kind = "File" /\ tag = 4 -> "Message"
    [] kind = "Message" /\ tag = 2 -> "Field"
    [] kind = "Message" /\ tag = 4 -> "Message"
    [] OTHER -> "none"

With(es, tag) == SelectSeq(es, LAMBDA e : e.tag = tag)

\* es without the entries of unknown tags, at every nesting level
RECURSIVE Strip(_, _)
Strip(kind, es) ==
  LET known == SelectSeq(es, LAMBDA e : e.tag \in KnownTags(kind))
  IN  [k \in 1..Len(known) |->
         IF ChildKind(kind, known[k].tag) = "none" THEN known[k]
         ELSE [known[k] EXCEPT !.sub = Strip(ChildKind(kind, known[k].tag), @)]]

LastStr(es, tag) ==
  LET m == With(es, tag) IN IF m = <<>> THEN <<>> ELSE m[Len(m)].str

LastNum(es, tag) ==
  LET m == With(es, tag) IN IF m = <<>> THEN 0 ELSE m[Len(m)].num

ExpField(es) ==
  [Name |-> LastStr(es, 1), Tag |-> U32(LastNum(es, 3)), Label |-> LastNum(es, 4),
   Type |-> LastNum(es, 5), OneOfIndex |-> LastNum(es, 9)]

RECURSIVE ExpMessage(_)
ExpMessage(es) ==
  [Name |-> LastStr(es, 1),
   Field |-> [k \in 1..Len(With(es, 2)) |-> ExpField(With(es, 2)[k].sub)],
   Nested |-> [k \in 1..Len(With(es, 4)) |-> ExpMessage(With(es, 4)[k].sub)]]

ExpFile(es) ==
  [Name |-> LastStr(es, 1), Package |-> LastStr(es, 2),
   Message |-> [k \in 1..Len(With(es, 4)) |-> ExpMessage(With(es, 4)[k].sub)],
   Format |-> LastStr(es, 12)]

ExpFiles(es) == [k \in 1..Len(With(es, 1)) |-> ExpFile(With(es, 1)[k].sub)]

\* the decode of the buffer es describes, once its unknown entries are removed
Expected(es) == ExpFiles(Strip("FileSet", es))

\* every top-level entry of es is well formed
AllGood(es) == \A k \in 1..Len(es) : es[k] \in GoodTop

\* the number of well-formed entries es starts with
RECURSIVE GoodPrefix(_)
GoodPrefix(es) ==
  IF es = <<>> \/ Head(es) \notin GoodTop THEN 0 ELSE 1 + GoodPrefix(Tail(es))

\* the buffer has no spare capacity
Exact == Len(mem) = msgLen

\* buffers cut short: a well-formed buffer truncated to a strict prefix
InitTrunc ==
  \E entries \in SeqsUpTo(GoodTop, MaxCutEntries), spare \in {0, MaxSpare} :
    \E cut \in 0..(Len(Encode(entries)) - 1) :
      Start(entries, SubSeq(Encode(entries), 1, cut), cut, spare)

SpecTrunc == InitTrunc /\ [][Next]_vars

---------------------------------------------------------------------------
(* Properties *)

\* some walker is about to call readNext(msg[i:])
Reading ==
  /\ status = "running"
  /\ stack # <<>>
  /\ ret.kind = "none"
  /\ 0 <= Top.i /\ Top.i < Top.msg.len

\* the header varint at the cursor
Hdr == Uvarint(SliceFrom(Top.msg, Top.i))

\* the walker at the top of the stack returns a failure at its cursor
FailsHere ==
  /\ ret'.kind = "err"
  /\ ret'.fn = Top.fn
  /\ ret'.off = Top.i
  /\ failAbs' = Top.msg.off + Top.i
  /\ Len(stack') < Len(stack)

\* C1: parseDescriptor always terminates: every run ends with its return
\* (clean end-of-slice or first failure), it never loops indefinitely.
C1_Terminates == <>(status # "running")

\* C2: when decoding fails, the failure offset parseDescriptor returns is the
\* absolute position in the input buffer of the read that failed, at every
\* nesting depth.
C2_AbsoluteOffset == status = "failed" => errOffset = failAbs

\* C3: when parseDescriptor stops with a failure, the Files it returns are
\* exactly the Files of the tag-1 entries decoded before the failure point, in
\* wire order; the File the failure occurred in is not among them.
FailsInEntry(k) == k \in 1..Len(src) /\ src[k] \in BadTop

C3_FilesBeforeFailure ==
  (status = "failed" /\ FailsInEntry(GoodPrefix(src) + 1))
    => files = Expected(SubSeq(src, 1, GoodPrefix(src)))

C3_Witness ==
  /\ status = "failed"
  /\ Len(src) = 2 /\ src[1] = fileAJunk
  /\ src[2] \in BadTop /\ src[2].sub # <<>>
  /\ Len(files) = 1

\* C4: a well-formed buffer with well-formed entries of unknown tag numbers
\* (varint, 32-bit, 64-bit, length-delimited) inserted at any nesting level
\* decodes without failure to the tree of the buffer without them.
C4_SkipUnknown ==
  AllGood(src)
    => /\ status \notin {"failed", "panic"}
       /\ status = "done" => files = Expected(src)

C4_Witness ==
  /\ status = "done"
  /\ Len(src) = 2 /\ src[1] = F32(2, <<1, 0, 0, 0>>) /\ src[2] = fileAJunk
  /\ files = Expected(<<fileA>>)

\* C5: a well-formed buffer truncated to a strict prefix gives a clean parse
\* of the entries that end at the truncation point or a failure, never a
\* success with other attribute values.
C5_Truncation ==
  /\ status # "panic"
  /\ status = "done" =>
       \E k \in 0..Len(src) :
         /\ Len(Encode(SubSeq(src, 1, k))) = msgLen
         /\ files = Expected(SubSeq(src, 1, k))

\* C6: a header that decodes to tag number 0 makes readNext report bytes
\* consumed 0 with the wire type as scalar, and the walker fails at it.
C6_TagZeroSentinel ==
  [][(Reading /\ Hdr.n > 0 /\ tagOf(Hdr.v) = U32(0))
       => (Cur.next = 0 /\ Cur.d = U64(kindOf(Hdr.v)) /\ FailsHere)]_vars

\* C7: no execution reaches an out-of-range slice operation: parseDescriptor
\* never panics.
C7_NoPanic == status # "panic"

\* C8: when the value of a 32-bit, 64-bit or length-delimited field is not
\* fully present in the buffer handed to readNext, readNext returns the
\* failure signal (non-positive bytes consumed, no slice) and the walker
\* fails at the offset of that read.
ShortValue ==
  LET data == SliceFrom(Top.msg, Top.i)
      kind == kindOf(Hdr.v)
      len == Uvarint(SliceFrom(data, Hdr.n))
  IN  /\ Hdr.n > 0 /\ tagOf(Hdr.v) # U32(0)
      /\ \/ kind = tag32bit /\ data.len - Hdr.n < 4
         \/ kind = tag64bit /\ data.len - Hdr.n < 8
         \/ /\ kind = tagSequence /\ len.n > 0
            /\ (~intFits(len.v) \/ data.len - Hdr.n - len.n < intOf(len.v))

C8_ShortValueFails ==
  [][(Reading /\ ShortValue)
       => (~Cur.panic /\ Cur.next <= 0 /\ Cur.b = nil /\ FailsHere)]_vars

\* C9: every non-positive bytes-consumed result ends the scan as a failure,
\* and every iteration that does not fail moves the cursor strictly forward.
C9_CursorAdvances ==
  [][(Reading /\ ~Cur.panic)
       => IF Cur.next <= 0 THEN FailsHere
          ELSE \/ Len(stack') > Len(stack)
               \/ Len(stack') = Len(stack) /\ Top'.i > Top.i]_vars

\* C10: a header with a non-zero tag number and wire type 3, 4, 6 or 7 makes
\* readNext return the wire type as scalar, no slice and bytes consumed 0, and
\* the walker fails at the offset of that header, for any tag number.
BadWireType ==
  /\ Hdr.n > 0 /\ tagOf(Hdr.v) # U32(0)
  /\ kindOf(Hdr.v) \in {tagStart, tagEnd, 6, 7}

C10_BadWireTypeFails ==
  [][(Reading /\ BadWireType)
       => /\ Cur = Result(U64(kindOf(Hdr.v)), nil, tagOf(Hdr.v), 0)
          /\ FailsHere]_vars

C10_Witness ==
  /\ status = "failed"
  /\ failAbs > 0
  /\ mem[failAbs + 1] = 8 * 4 + tagStart

\* the Fields and nested Messages of m are the decodes of the tag-2 and tag-4
\* entries of es, one each, in the order of the entries
RECURSIVE MessageInOrder(_, _)
MessageInOrder(m, es) ==
  /\ m.Name = LastStr(es, 1)
  /\ Len(m.Field) = Len(With(es, 2))
  /\ \A k \in 1..Len(m.Field) :
       m.Field[k] = ExpField(Strip("Field", With(es, 2)[k].sub))
  /\ Len(m.Nested) = Len(With(es, 4))
  /\ \A k \in 1..Len(m.Nested) : MessageInOrder(m.Nested[k], With(es, 4)[k].sub)

\* the Messages of f are the decodes of the tag-4 entries of es, one each, in
\* the order of the entries
FileInOrder(f, es) ==
  /\ f.Name = LastStr(es, 1)
  /\ Len(f.Message) = Len(With(es, 4))
  /\ \A k \in 1..Len(f.Message) : MessageInOrder(f.Message[k], With(es, 4)[k].sub)

\* C11: after a successful parse of a well-formed buffer the result holds one
\* File per top-level tag-1 entry, each File one Message per tag-4 entry, each
\* Message one Field per tag-2 entry and one nested Message per tag-4 entry,
\* in the order of the entries, each child decoded from its own payload.
C11_WireOrder ==
  (AllGood(src) /\ status = "done")
    => /\ Len(files) = Len(With(src, 1))
       /\ \A k \in 1..Len(files) : FileInOrder(files[k], With(src, 1)[k].sub)

C11_Witness ==
  /\ status = "done"
  /\ Len(src) = 2 /\ src[1] = fileEmpty /\ src[2] = fileTwice
  /\ Len(files) = 2 /\ files[1] = NewFile
  /\ Len(files[2].Message) = 2
  /\ files[2].Message[1].Nested[1].Name = <<65>>
  /\ files[2].Message[1].Nested[2].Name = <<66>>
  /\ files[2].Message[1].Field[1].Name = <<122, 122>>
  /\ files[2].Message[1].Field[2].Name = <<120>>
  /\ files[2].Message[2] = ExpMessage(msgPoint)

\* t lies in [1, 2^29 - 1]
TagInRange(t) == t # U32(0) /\ t[2] <= 1

\* every Field of m that was decoded from an entry holding a tag-3 entry has
\* a tag number in range; es are the entries m was decoded from
RECURSIVE MessageTagsInRange(_, _)
MessageTagsInRange(m, es) ==
  /\ \A k \in 1..Len(m.Field) :
       With(With(es, 2)[k].sub, 3) # <<>> => TagInRange(m.Field[k].Tag)
  /\ \A k \in 1..Len(m.Nested) : MessageTagsInRange(m.Nested[k], With(es, 4)[k].sub)

\* C12: in a successfully decoded result every Field whose tag number was set
\* from a tag-3 entry of the wire has a tag number in [1, 2^29 - 1].
C12_TagRange ==
  (AllGood(src) /\ status = "done")
    => \A k \in 1..Len(files) :
         \A j \in 1..Len(files[k].Message) :
           MessageTagsInRange(files[k].Message[j], With(With(src, 1)[k].sub, 4)[j].sub)

\* the offset at which the k-th top-level entry of src starts
EntryStart(k) == Len(Encode(SubSeq(src, 1, k - 1)))

\* parseDescriptor is about to read the k-th top-level entry of a buffer of
\* well-formed entries
AtEntry(k) ==
  /\ Reading /\ Len(stack) = 1
  /\ AllGood(src)
  /\ Top.i = EntryStart(k)

\* C13: reading a complete field of non-zero tag, readNext consumes exactly
\* the encoded size of the field: header plus value bytes for a varint, whose
\* scalar is the encoded value; header plus length prefix plus length for a
\* length-delimited field, whose slice is exactly the bytes after the prefix.
C13_ExactRead ==
  \A k \in 1..Len(src) :
    AtEntry(k) =>
      LET e == src[k]
          h == Len(Header(e.tag, e.wt))
          payload == e.str \o Encode(e.sub)
          p == Len(PutUvarint(Len(payload)))
      IN  /\ ~Cur.panic /\ Cur.tag = U32(e.tag)
          /\ e.wt = tagUvarint =>
               /\ Cur.next = h + Len(PutUvarint(e.num))
               /\ Cur.d = U64(e.num)
          /\ e.wt = tagSequence =>
               /\ Cur.next = h + p + Len(payload)
               /\ Cur.b.off = Top.i + h + p /\ Cur.b.len = Len(payload)
               /\ string(Cur.b) = payload

\* a varint with a two-byte header and a two-byte value, then a
\* length-delimited field with a two-byte length prefix, about to be read
C13_Witness ==
  /\ AtEntry(2)
  /\ Len(src) = 2 /\ src[1] = V(16, 300) /\ src[2] = longBytes
  /\ Top.i = 4
  /\ Cur.next = 133 /\ Cur.b.off = 7 /\ Cur.b.len = 130

\* the walker at the top of the stack decodes a field whose tag number is not
\* in its table
ReadsUnknownTag ==
  /\ Reading /\ ~Cur.panic /\ Cur.next # 0
  /\ \/ Cur.tag[2] # 0
     \/ Cur.tag[1] \notin
          (CASE Top.fn = "parseDescriptor" -> {1}
             [] Top.fn = "parseFile" -> {1, 2, 4, 12}
             [] Top.fn = "parseMessage" -> {1, 2, 4}
             [] Top.fn = "parseField" -> {1, 3, 4, 5, 9})

\* C14: an iteration that decodes a tag number outside the walker's table
\* (FileSet 1; File 1, 2, 4, 12; Message 1, 2, 4; Field 1, 3, 4, 5, 9) leaves
\* the entity under construction and the frames below unchanged and moves
\* the cursor forward by exactly the bytes consumed.
C14_UnknownTagFrame ==
  [][ReadsUnknownTag
       => /\ Len(stack') = Len(stack)
          /\ stack' = [stack EXCEPT ![Len(stack)].i = Top.i + Cur.next]
          /\ Top.ent = stack'[Len(stack)].ent
          /\ status' = "running"]_vars

\* parseField has stepped over the fixed32 field of tag 7 that fieldXJunk
\* starts with: the cursor is behind it and the Field is untouched
C14_Witness ==
  /\ status = "running" /\ stack # <<>> /\ ret.kind = "none"
  /\ Top.fn = "parseField"
  /\ Top.i = 5 /\ Top.ent = NewField
  /\ mem[Top.msg.off + 1] = 7 * 8 + tag32bit

\* the walker at the top of the stack is at the head of its loop
AtLoopHead == status = "running" /\ stack # <<>> /\ ret.kind = "none"

\* C15: at every loop head of every walker the cursor lies within the slice,
\* 0 <= i <= len(msg), so that the loop can only end with i = len(msg).
C15_CursorBounds ==
  AtLoopHead => (0 <= Top.i /\ Top.i <= Top.msg.len)

\* a Field holds, for each single-valued attribute, the value of the last
\* entry of es with the attribute's tag number
FieldLastWins(f, es) ==
  /\ f.Name = LastStr(es, 1)
  /\ f.Tag = U32(LastNum(es, 3))
  /\ f.Label = LastNum(es, 4)
  /\ f.Type = LastNum(es, 5)
  /\ f.OneOfIndex = LastNum(es, 9)

\* the name of m is that of the last tag-1 entry of es, and m has one Field
\* per tag-2 entry and one nested Message per tag-4 entry
RECURSIVE MessageLastWins(_, _)
MessageLastWins(m, es) ==
  /\ m.Name = LastStr(es, 1)
  /\ Len(m.Field) = Len(With(es, 2))
  /\ \A k \in 1..Len(m.Field) : FieldLastWins(m.Field[k], With(es, 2)[k].sub)
  /\ Len(m.Nested) = Len(With(es, 4))
  /\ \A k \in 1..Len(m.Nested) : MessageLastWins(m.Nested[k], With(es, 4)[k].sub)

FileLastWins(f, es) ==
  /\ f.Name = LastStr(es, 1)
  /\ f.Package = LastStr(es, 2)
  /\ f.Format = LastStr(es, 12)
  /\ Len(f.Message) = Len(With(es, 4))
  /\ \A k \in 1..Len(f.Message) : MessageLastWins(f.Message[k], With(es, 4)[k].sub)

\* some entity of es holds two entries of one single-valued tag number
HasRepeatedAttribute(es) ==
  \E k \in 1..Len(es) :
    /\ es[k].tag = 1 /\ es[k].wt = tagSequence
    /\ \E t \in {1, 2, 12} : Len(With(es[k].sub, t)) > 1

\* C16: when a single-valued attribute (File name, package, format; Message
\* name; Field name, tag, label, type, one-of index) occurs more than once in
\* an entity, the last occurrence gives the value; every occurrence of a
\* child tag (FileSet 1, File 4, Message 2 and 4) appends one child.
C16_LastWins ==
  (AllGood(src) /\ HasRepeatedAttribute(src) /\ status = "done")
    => /\ Len(files) = Len(With(src, 1))
       /\ \A k \in 1..Len(files) : FileLastWins(files[k], With(src, 1)[k].sub)

C16_Witness ==
  /\ status = "done"
  /\ src = <<fileTwice, fileTwice>>
  /\ Len(files) = 2 /\ files[1] = files[2]
  /\ files[1].Name = <<98>> /\ files[1].Package = <<113>> /\ files[1].Format = <<51>>
  /\ Len(files[1].Message) = 2
  /\ files[1].Message[1].Name = <<81>>
  /\ Len(files[1].Message[1].Field) = 2 /\ Len(files[1].Message[1].Nested) = 2
  /\ files[1].Message[1].Field[1] =
       [Name |-> <<122, 122>>, Tag |-> U32(300), Label |-> 2, Type |-> 13,
        OneOfIndex |-> 3]

\* es as a walker that looks at tag numbers only receives them: an entry that
\* is not length-delimited brings no bytes, a length-delimited one no scalar
RECURSIVE AsDelivered(_)
AsDelivered(es) ==
  [k \in 1..Len(es) |->
     IF es[k].wt = tagSequence THEN [es[k] EXCEPT !.num = 0, !.sub = AsDelivered(@)]
     ELSE [es[k] EXCEPT !.str = <<>>, !.sub = <<>>]]

\* src is made of well-formed entries, at least one of which has a known tag
\* under another wire type than its attribute has
HasMixed(es) ==
  /\ \A k \in 1..Len(es) : es[k] \in GoodTop \cup MixedTop
  /\ \E k \in 1..Len(es) : es[k] \in MixedTop

\* C17: the walkers dispatch on the tag number alone. A string or child tag
\* that arrives as a varint or fixed-width field is handled with an empty
\* byte slice (the name becomes empty, an empty File, Message or Field is
\* appended) and the scan goes on without failure; an integer tag of a Field
\* (3, 4, 5, 9) that arrives length-delimited sets its attribute to 0.
C17_TagOnlyDispatch ==
  HasMixed(src)
    => /\ status \notin {"failed", "panic"}
       /\ status = "done" => files = Expected(AsDelivered(src))

C17_Witness ==
  /\ status = "done"
  /\ src = <<V(1, 2), fileMixed>>
  /\ Len(files) = 2 /\ files[1] = NewFile
  /\ files[2].Name = <<>> /\ files[2].Package = <<>> /\ files[2].Format = <<>>
  /\ files[2].Message =
       <<[Name |-> <<>>, Field |-> <<NewField, NewField, NewField>>,
          Nested |-> <<NewMessage>>],
         NewMessage>>
====
